---- MODULE Spec2Model ----
(***************************************************************************)
(* Model of the A/B testing framework of src/src/serving/ab_testing.py     *)
(* (class ABTestingFramework): the experiment records kept in Redis, the   *)
(* Istio traffic route of each experiment, the prediction records, the     *)
(* final reports, and the public operations on them.                       *)
(***************************************************************************)
EXTENDS Integers, FiniteSets, Sequences, TLC

(* ------------------------------ bounds -------------------------------- *)
\* The clock counts seconds; it stops advancing at MaxClock (one second
\* later where a test has to outlive its duration).
MaxClock == 1
\* The count of report writes of a test saturates at MaxReportWrites.
MaxReportWrites == 2
\* At most MaxRecords prediction records are stored.
MaxRecords == 1
\* Seconds per hour of the scaled-down clock.
SecPerHour == 1
\* At most MaxCreates calls of create_ab_test are made in one behaviour.
MaxCreates == 1

(* ------------------------- program constants -------------------------- *)
\* timedelta(hours=duration_hours + 24)
KeepHours == 24
\* timedelta(days=7), in hours
UpdateTtlHours == 168

(* ----------------------------- value sets ----------------------------- *)
\* Test ids: "ab_test_{int(time.time())}" is identified with the second.
Ids == 0 .. MaxClock
\* Fractions (traffic_split, random.random()) are kept in thousandths.
One == 1000
\* Arguments of create_ab_test: traffic_split (0.5 is 500, 1.5 is 1500),
\* duration_hours and min_samples; one valid choice and one invalid choice
\* for each argument.
Params ==
    { [p |-> 500,  dur |-> 1, ms |-> 1],
      [p |-> 1500, dur |-> 1, ms |-> 1],
      [p |-> 500,  dur |-> 0, ms |-> 1],
      [p |-> 500,  dur |-> 1, ms |-> 0] }
\* reason argument of stop_ab_test
Reasons == {"Manual stop", "Operator abort"}
\* the value of a key that is not in the store / of a dict key that is absent
None == [absent |-> TRUE]
NoTime == -1

VARIABLES
    clock,      \* time.time() / datetime.now(), in seconds
    store,      \* Redis keys ab_test:{id}: id -> test_config or None
    expiry,     \* TTL in hours given to ab_test:{id} by its last setex
    routes,     \* the Istio VirtualService of each test: weights or None
    reports,    \* Redis keys test_report:{id}: id -> report or None
    nreports,   \* number of setex calls made on test_report:{id}
    preds,      \* Redis keys prediction:{id}:{model}:{ms}: the set of
                \* prediction records, at most one per key
    ncreates,   \* number of create_ab_test calls made
    halted,     \* history: the tests that a stop_ab_test call returned True
                \* for, with no successful start_ab_test since
    inflight,   \* an analyze_ab_test call that has read the record and
                \* not yet written it back: [id, cfg] or None
    ret         \* the last completed call: its arguments, its outcome, and
                \* the status of the record it found (pre)

vars == <<clock, store, expiry, routes, reports, nreports, preds, ncreates,
          halted, inflight, ret>>

\* int(time.time())
NowSec == clock

(* --------------------------- create_ab_test --------------------------- *)
\* The dict built at the top of create_ab_test.
test_config(id, p, dur, ms) ==
    [ test_id           |-> id,
      baseline_model    |-> "baseline",
      candidate_model   |-> "candidate",
      traffic_split     |-> p,
      duration_hours    |-> dur,
      min_samples       |-> ms,
      start_time        |-> clock,
      end_time          |-> clock + dur * SecPerHour,
      status            |-> "CREATED",
      actual_start_time |-> NoTime,
      stop_time         |-> NoTime,
      stop_reason       |-> "",
      last_analysis     |-> None ]

\* The status of a record, "absent" for a missing one.
StatusOf(cfg) == IF cfg = None THEN "absent" ELSE cfg.status

\* What a call reports: op, the id it was about, its result, what the
\* traffic controller answered, and the status of the record it found.
Result(op, id, res, ctl, pre) ==
    [ op |-> op, id |-> id, res |-> res, ctl |-> ctl, pre |-> StatusOf(pre) ]

\* The state the operations act on, as one value, so that an operation
\* that calls another one (stop_ab_test from monitor_ab_tests) composes.
World ==
    [ store |-> store, expiry |-> expiry, routes |-> routes,
      reports |-> reports, nreports |-> nreports, preds |-> preds,
      halted |-> halted ]

Commit(w) ==
    /\ store' = w.store
    /\ expiry' = w.expiry
    /\ routes' = w.routes
    /\ reports' = w.reports
    /\ nreports' = w.nreports
    /\ preds' = w.preds
    /\ halted' = w.halted

create_ab_test(p, dur, ms) ==
    /\ LET id == NowSec IN
       /\ store' = [store EXCEPT ![id] = test_config(id, p, dur, ms)]
       /\ expiry' = [expiry EXCEPT ![id] = dur + KeepHours]
       /\ ret' = Result("create", id, id, "none", store[id])
       /\ halted' = halted \ {id}
    /\ ncreates' = ncreates + 1
    /\ UNCHANGED <<clock, routes, reports, nreports, preds, inflight>>

(* ------------------------------ helpers ------------------------------- *)
\* redis get of ab_test:{id}; a missing key gives None.
_get_test_config(w, id) ==
    w.store[id]

\* json.dumps(config): the statistical tests of an analysis hold numpy
\* booleans ('significant': p_value < level), which json cannot encode.
JsonSerializable(cfg) ==
    cfg.last_analysis = None \/ cfg.last_analysis.tests = None

\* setex of ab_test:{id} with a TTL of 7 days; an exception (the store is
\* down: wok = FALSE, or json.dumps raised) is logged and swallowed.
_update_test_config(w, id, cfg, wok) ==
    IF wok /\ JsonSerializable(cfg)
    THEN [w EXCEPT !.store[id] = cfg, !.expiry[id] = UpdateTtlHours]
    ELSE w

\* int(x) for x = n / d with d > 0: the fraction is cut off toward zero.
IntOf(n, d) == IF n >= 0 THEN n \div d ELSE -((-n) \div d)

\* The two route weights of the VirtualService:
\* int((1 - traffic_split) * 100) and int(traffic_split * 100).
Weights(cfg) ==
    [ baseline  |-> IntOf((One - cfg.traffic_split) * 100, One),
      candidate |-> IntOf(cfg.traffic_split * 100, One) ]

\* The VirtualService is applied (ctl = "ok") or the call fails.
_deploy_istio_traffic_split(w, cfg, ctl) ==
    IF ctl = "ok"
    THEN [w EXCEPT !.routes[cfg.test_id] = Weights(cfg)]
    ELSE w

\* The VirtualService is removed (ctl = "ok") or the call fails.
_restore_baseline_traffic(w, cfg, ctl) ==
    IF ctl = "ok"
    THEN [w EXCEPT !.routes[cfg.test_id] = None]
    ELSE w

\* The report dict of _generate_test_report.
Report(id, cfg) ==
    [ test_id      |-> id,
      duration     |-> IF cfg.stop_time = NoTime THEN clock ELSE cfg.stop_time,
      status       |-> cfg.status,
      results      |-> cfg.last_analysis,
      generated_at |-> clock ]

\* Reads the record again and writes test_report:{id} when the record has
\* a last_analysis; rok = FALSE is a failing setex, which raises.
_generate_test_report(w, id, rok) ==
    LET cfg == _get_test_config(w, id) IN
    IF cfg # None /\ cfg.last_analysis # None
    THEN IF rok
         THEN [ w |-> [w EXCEPT !.reports[id] = Report(id, cfg),
                                !.nreports[id] =
                                    IF @ < MaxReportWrites THEN @ + 1 ELSE @],
                raised |-> FALSE ]
         ELSE [ w |-> w, raised |-> TRUE ]
    ELSE [ w |-> w, raised |-> FALSE ]

(* --------------------------- start_ab_test ---------------------------- *)
\* The world after the call and the boolean it returns.
StartOutcome(w, id, ctl, wok) ==
    LET cfg == _get_test_config(w, id) IN
    IF cfg = None
    THEN [ w |-> w, res |-> FALSE ]
    ELSE IF ctl = "ok"
         THEN [ w |-> [ _update_test_config(
                            _deploy_istio_traffic_split(w, cfg, ctl), id,
                            [cfg EXCEPT !.status = "RUNNING",
                                        !.actual_start_time = clock], wok)
                        EXCEPT !.halted = @ \ {id} ],
                res |-> TRUE ]
         ELSE [ w |-> w, res |-> FALSE ]

start_ab_test(id, ctl, wok) ==
    LET o == StartOutcome(World, id, ctl, wok) IN
    /\ Commit(o.w)
    /\ ret' = Result("start", id, o.res, ctl, _get_test_config(World, id))
    /\ UNCHANGED <<clock, ncreates, inflight>>

(* ---------------------------- stop_ab_test ---------------------------- *)
\* stop_ab_test with the check of the controller's answer left out: the
\* record is marked STOPPED although the baseline restore failed.
StopOutcome_IgnoringController(w, id, reason, ctl, wok, rok) ==
    LET cfg == _get_test_config(w, id) IN
    IF cfg = None
    THEN [ w |-> w, res |-> FALSE ]
    ELSE LET w1 == _update_test_config(
                       _restore_baseline_traffic(w, cfg, ctl), id,
                       [cfg EXCEPT !.status = "STOPPED",
                                   !.stop_time = clock,
                                   !.stop_reason = reason], wok)
         IN  [ w |-> w1, res |-> ctl = "ok" ]

\* stop_ab_test putting the record back when the report write raises.
StopOutcome_RevertOnReportFailure(w, id, reason, ctl, wok, rok) ==
    LET cfg == _get_test_config(w, id) IN
    IF cfg = None
    THEN [ w |-> w, res |-> FALSE ]
    ELSE IF ctl = "ok"
         THEN LET w1 == _update_test_config(
                            _restore_baseline_traffic(w, cfg, ctl), id,
                            [cfg EXCEPT !.status = "STOPPED",
                                        !.stop_time = clock,
                                        !.stop_reason = reason], wok)
                  g == _generate_test_report(w1, id, rok)
              IN  [ w |-> IF g.raised THEN w
                          ELSE [g.w EXCEPT !.halted = @ \cup {id}],
                    res |-> ~g.raised ]
         ELSE [ w |-> w, res |-> FALSE ]

StopOutcome(w, id, reason, ctl, wok, rok) ==
    LET cfg == _get_test_config(w, id) IN
    IF cfg = None
    THEN [ w |-> w, res |-> FALSE ]
    ELSE IF ctl = "ok"
         THEN LET w1 == _update_test_config(
                            _restore_baseline_traffic(w, cfg, ctl), id,
                            [cfg EXCEPT !.status = "STOPPED",
                                        !.stop_time = clock,
                                        !.stop_reason = reason], wok)
                  g == _generate_test_report(w1, id, rok)
              IN  [ w |-> IF g.raised THEN g.w
                          ELSE [g.w EXCEPT !.halted = @ \cup {id}],
                    res |-> ~g.raised ]
         ELSE [ w |-> w, res |-> FALSE ]

stop_ab_test(id, reason, ctl, wok, rok) ==
    LET o == StopOutcome(World, id, reason, ctl, wok, rok) IN
    /\ Commit(o.w)
    /\ ret' = Result("stop", id, o.res, ctl, _get_test_config(World, id))
    /\ UNCHANGED <<clock, ncreates, inflight>>

(* ---------------------------- route_request --------------------------- *)
\* u is the value of random.random(), in thousandths.
Draws == {0, 500, 999}

\* route_request comparing the draw with <= instead of <.
Routed_DrawInclusive(cfg, u) ==
    IF cfg = None
    THEN "TypeError"
    ELSE IF cfg.status # "RUNNING"
         THEN cfg.baseline_model
         ELSE IF u <= cfg.traffic_split
              THEN cfg.candidate_model
              ELSE cfg.baseline_model

\* The model id returned, or the exception raised: subscripting None
\* (test_config['baseline_model'] of a missing record) is a TypeError.
Routed(cfg, u) ==
    IF cfg = None
    THEN "TypeError"
    ELSE IF cfg.status # "RUNNING"
         THEN cfg.baseline_model
         ELSE IF u < cfg.traffic_split
              THEN cfg.candidate_model
              ELSE cfg.baseline_model

route_request(id, u) ==
    LET cfg == _get_test_config(World, id) IN
    /\ ret' = Result("route", id, Routed(cfg, u), "none", cfg)
    /\ UNCHANGED <<clock, store, expiry, routes, reports, nreports, preds, ncreates,
                   halted, inflight>>

(* --------------------------- get_test_report -------------------------- *)
get_test_report(id) ==
    /\ ret' = Result("report", id,
                     reports[id],
                     "none", _get_test_config(World, id))
    /\ UNCHANGED <<clock, store, expiry, routes, reports, nreports, preds, ncreates,
                   halted, inflight>>

(* -------------------------- record_prediction ------------------------- *)
Models == {"baseline", "candidate"}
\* Milliseconds per second: the sub-second part m of int(time.time() * 1000).
MsPerSec == 2

\* The Redis key of a prediction record.
record_key(r) == <<r.test_id, r.model_id, r.ms>>

\* record_prediction storing the record only for a RUNNING test.
record_prediction_OnlyRunning(id, model, rt, ok, m, wok) ==
    LET r == [ test_id |-> id, model_id |-> model,
               ms |-> clock * MsPerSec + m,
               response_time |-> rt, success |-> ok ]
    IN
    /\ preds' = IF wok /\ StatusOf(store[id]) = "RUNNING"
                THEN {q \in preds : record_key(q) # record_key(r)} \cup {r}
                ELSE preds
    /\ ret' = Result("record", id, IF wok THEN "None" ELSE "RedisError",
                     "none", store[id])
    /\ UNCHANGED <<clock, store, expiry, routes, reports, nreports, ncreates,
                   halted, inflight>>

\* setex of one prediction record: a record already stored under the same
\* key is replaced.  The write raises when the store is down (wok = FALSE).
record_prediction(id, model, rt, ok, m, wok) ==
    LET r == [ test_id |-> id, model_id |-> model,
               ms |-> clock * MsPerSec + m,
               response_time |-> rt, success |-> ok ]
    IN
    /\ preds' = IF wok
                THEN {q \in preds : record_key(q) # record_key(r)} \cup {r}
                ELSE preds
    /\ ret' = Result("record", id, IF wok THEN "None" ELSE "RedisError",
                     "none", store[id])
    /\ UNCHANGED <<clock, store, expiry, routes, reports, nreports, ncreates,
                   halted, inflight>>

(* --------------------------- analyze_ab_test -------------------------- *)
\* keys prediction:{id}:{model}:* and the records under them
_get_prediction_data(w, id, model) ==
    {r \in w.preds : r.test_id = id /\ r.model_id = model}

RECURSIVE SumRt(_)
SumRt(data) ==
    IF data = {} THEN 0
    ELSE LET r == CHOOSE x \in data : TRUE
         IN  r.response_time + SumRt(data \ {r})

Successes(data) == Cardinality({r \in data : r.success})

\* Empty data gives the empty dict.  The rates and the mean are kept as
\* their numerators over total_predictions; the percentiles are left out.
_calculate_model_stats(data) ==
    IF data = {} THEN None
    ELSE [ total_predictions |-> Cardinality(data),
           successes         |-> Successes(data),
           rt_sum            |-> SumRt(data) ]

\* _generate_recommendations deploying when either test favours the candidate.
_generate_recommendations_DeployOnEither(tests) ==
    LET rt == tests.response_time
        sr == tests.success_rate
        rt_sig == rt # None /\ rt.significant
        sr_sig == sr.significant
        rt_better == rt_sig /\ rt.candidate_mean_lt
        sr_better == sr_sig /\ sr.candidate_rate_gt
    IN  (IF rt_sig
         THEN IF rt.candidate_mean_lt THEN <<"rt_better">> ELSE <<"rt_worse">>
         ELSE <<>>)
        \o
        (IF sr_sig
         THEN IF sr.candidate_rate_gt THEN <<"sr_better">> ELSE <<"sr_worse">>
         ELSE <<>>)
        \o
        (IF rt_better \/ sr_better THEN <<"deploy">>
         ELSE IF ~rt_sig /\ ~sr_sig THEN <<"no_difference">>
         ELSE <<"mixed">>)

\* The overall recommendation and the per-test lines before it.
_generate_recommendations(tests) ==
    LET rt == tests.response_time
        sr == tests.success_rate
        rt_sig == rt # None /\ rt.significant
        sr_sig == sr.significant
        rt_better == rt_sig /\ rt.candidate_mean_lt
        sr_better == sr_sig /\ sr.candidate_rate_gt
    IN  (IF rt_sig
         THEN IF rt.candidate_mean_lt THEN <<"rt_better">> ELSE <<"rt_worse">>
         ELSE <<>>)
        \o
        (IF sr_sig
         THEN IF sr.candidate_rate_gt THEN <<"sr_better">> ELSE <<"sr_worse">>
         ELSE <<>>)
        \o
        (IF rt_better /\ sr_better THEN <<"deploy">>
         ELSE IF ~rt_sig /\ ~sr_sig THEN <<"no_difference">>
         ELSE <<"mixed">>)

\* {'error': str(e)}, the result of an analysis that raised
ErrorResult == [error |-> TRUE]
\* {}, the result for a missing record
EmptyResult == [empty |-> TRUE]

\* an exception raised inside analyze_ab_test
Raised == [raised |-> TRUE]

\* The statistical tests of the two arms, or Raised where the code raises:
\* the success rate of an arm without records divides by zero, and
\* chi2_contingency rejects a table with an all-zero column.  sig_rt and
\* sig_sr are the outcomes of p_value < significance_level.
StatisticalTests(b, c, sig_rt, sig_sr) ==
    LET nb == Cardinality(b)
        nc == Cardinality(c)
        sb == Successes(b)
        sc == Successes(c)
    IN  IF nb = 0 \/ nc = 0 \/ sb + sc = 0 \/ sb + sc = nb + nc
        THEN Raised
        ELSE [ response_time |->
                 [ significant       |-> sig_rt,
                   candidate_mean_lt |-> SumRt(c) * nb < SumRt(b) * nc ],
               success_rate |->
                 [ significant       |-> sig_sr,
                   candidate_rate_gt |-> sc * nb > sb * nc ] ]

\* analyze_ab_test running the tests when either arm has min_samples.
Analysis_EitherArm(w, id, cfg, sig_rt, sig_sr, wok) ==
    LET b == _get_prediction_data(w, id, cfg.baseline_model)
        c == _get_prediction_data(w, id, cfg.candidate_model)
        enough == \/ Cardinality(b) >= cfg.min_samples
                  \/ Cardinality(c) >= cfg.min_samples
        tests == IF enough THEN StatisticalTests(b, c, sig_rt, sig_sr)
                 ELSE None
    IN  IF tests = Raised
        THEN [ w |-> w, res |-> ErrorResult ]
        ELSE LET a == [ test_id           |-> id,
                        analysis_time     |-> clock,
                        baseline_stats    |-> _calculate_model_stats(b),
                        candidate_stats   |-> _calculate_model_stats(c),
                        tests             |-> tests,
                        recommendations   |->
                            IF enough THEN _generate_recommendations(tests)
                            ELSE <<"insufficient">> ]
             IN  [ w |-> _update_test_config(
                             w, id, [cfg EXCEPT !.last_analysis = a], wok),
                   res |-> a ]

\* The body of analyze_ab_test after the record cfg has been read.
Analysis(w, id, cfg, sig_rt, sig_sr, wok) ==
    LET b == _get_prediction_data(w, id, cfg.baseline_model)
        c == _get_prediction_data(w, id, cfg.candidate_model)
        enough == /\ Cardinality(b) >= cfg.min_samples
                  /\ Cardinality(c) >= cfg.min_samples
        tests == IF enough THEN StatisticalTests(b, c, sig_rt, sig_sr)
                 ELSE None
    IN  IF tests = Raised
        THEN [ w |-> w, res |-> ErrorResult ]
        ELSE LET a == [ test_id           |-> id,
                        analysis_time     |-> clock,
                        baseline_stats    |-> _calculate_model_stats(b),
                        candidate_stats   |-> _calculate_model_stats(c),
                        tests             |-> tests,
                        recommendations   |->
                            IF enough THEN _generate_recommendations(tests)
                            ELSE <<"insufficient">> ]
             IN  [ w |-> _update_test_config(
                             w, id, [cfg EXCEPT !.last_analysis = a], wok),
                   res |-> a ]

\* analyze_ab_test without the test for a missing record: subscripting None
\* raises inside the try.
AnalyzeOutcome_NoMissingCheck(w, id, sig_rt, sig_sr, wok) ==
    LET cfg == _get_test_config(w, id) IN
    IF cfg = None
    THEN [ w |-> w, res |-> ErrorResult ]
    ELSE Analysis(w, id, cfg, sig_rt, sig_sr, wok)

AnalyzeOutcome(w, id, sig_rt, sig_sr, wok) ==
    LET cfg == _get_test_config(w, id) IN
    IF cfg = None
    THEN [ w |-> w, res |-> EmptyResult ]
    ELSE Analysis(w, id, cfg, sig_rt, sig_sr, wok)

analyze_ab_test(id, sig_rt, sig_sr, wok) ==
    LET o == AnalyzeOutcome(World, id, sig_rt, sig_sr, wok) IN
    /\ Commit(o.w)
    /\ ret' = Result("analyze", id, o.res, "none", store[id])
    /\ UNCHANGED <<clock, ncreates, inflight>>

\* analyze_ab_test as the two steps another call can come between: the
\* read of the record, and the rest of the call on the record that was read.
AnalyzeRead(id) ==
    /\ inflight = None
    /\ LET cfg == _get_test_config(World, id) IN
       IF cfg = None
       THEN /\ ret' = Result("analyze", id, EmptyResult, "none", cfg)
            /\ UNCHANGED inflight
       ELSE /\ inflight' = [id |-> id, cfg |-> cfg]
            /\ UNCHANGED ret
    /\ UNCHANGED <<clock, store, expiry, routes, reports, nreports, preds,
                   ncreates, halted>>

AnalyzeWrite(sig_rt, sig_sr, wok) ==
    /\ inflight # None
    /\ LET o == Analysis(World, inflight.id, inflight.cfg, sig_rt, sig_sr, wok)
       IN  /\ Commit(o.w)
           /\ ret' = Result("analyze", inflight.id, o.res, "none", inflight.cfg)
    /\ inflight' = None
    /\ UNCHANGED <<clock, ncreates>>

(* -------------------------- monitor_ab_tests -------------------------- *)
\* error_rate and avg_response_time of a stats dict as fractions num/den;
\* .get(key, 0) of the empty dict is 0.
ErrorRate(st) ==
    IF st = None THEN [num |-> 0, den |-> 1]
    ELSE [num |-> st.total_predictions - st.successes,
          den |-> st.total_predictions]

AvgResponseTime(st) ==
    IF st = None THEN [num |-> 0, den |-> 1]
    ELSE [num |-> st.rt_sum, den |-> st.total_predictions]

\* candidate error rate > 2 x baseline error rate, or
\* candidate mean response time > 1.5 x baseline mean response time
_should_rollback(analysis) ==
    IF analysis = ErrorResult \/ analysis = EmptyResult
    THEN FALSE
    ELSE LET ce == ErrorRate(analysis.candidate_stats)
             be == ErrorRate(analysis.baseline_stats)
             ca == AvgResponseTime(analysis.candidate_stats)
             ba == AvgResponseTime(analysis.baseline_stats)
         IN  \/ ce.num * be.den > 2 * be.num * ce.den
             \/ 2 * ca.num * ba.den > 3 * ba.num * ca.den

DurationExceeded == "Test duration exceeded"
AutomaticRollback == "Automatic rollback - performance degradation"

EmptySummary == [active_tests |-> <<>>, alerts |-> <<>>, actions_taken |-> <<>>]

\* The loop body without the test of the end time.
MonitorOne_NoDurationCheck(acc, id, unreadable, sig_rt, sig_sr, ctl, wok, rok) ==
    LET w == acc.w
        cfg == _get_test_config(w, id)
        sm == acc.summary
    IN
    IF cfg = None \/ id \in unreadable \/ cfg.status # "RUNNING"
    THEN acc
    ELSE LET an == AnalyzeOutcome(w, id, sig_rt, sig_sr, wok) IN
         IF _should_rollback(an.res)
         THEN [ w |-> StopOutcome(an.w, id, AutomaticRollback,
                                  ctl, wok, rok).w,
                summary |-> [sm EXCEPT
                    !.actions_taken = Append(@, <<"rolled_back", id>>),
                    !.alerts = Append(@, <<"CRITICAL", id>>)] ]
         ELSE [ w |-> an.w,
                summary |-> [sm EXCEPT !.active_tests = Append(@, id)] ]

\* One iteration of the loop over the keys ab_test:*, on the world and the
\* summary built so far.  A key in unreadable raises when it is read, which
\* the loop logs and passes over.
MonitorOne(acc, id, unreadable, sig_rt, sig_sr, ctl, wok, rok) ==
    LET w == acc.w
        cfg == _get_test_config(w, id)
        sm == acc.summary
    IN
    IF cfg = None \/ id \in unreadable \/ cfg.status # "RUNNING"
    THEN acc
    ELSE IF clock > cfg.end_time
         THEN [ w |-> StopOutcome(w, id, DurationExceeded, ctl, wok, rok).w,
                summary |-> [sm EXCEPT !.actions_taken =
                                 Append(@, <<"stopped", id>>)] ]
         ELSE LET an == AnalyzeOutcome(w, id, sig_rt, sig_sr, wok) IN
              IF _should_rollback(an.res)
              THEN [ w |-> StopOutcome(an.w, id, AutomaticRollback,
                                       ctl, wok, rok).w,
                     summary |-> [sm EXCEPT
                         !.actions_taken = Append(@, <<"rolled_back", id>>),
                         !.alerts = Append(@, <<"CRITICAL", id>>)] ]
              ELSE [ w |-> an.w,
                     summary |-> [sm EXCEPT !.active_tests = Append(@, id)] ]

\* The loop with the try around it instead of inside it: the first key that
\* raises ends the loop.
RECURSIVE MonitorLoop_AbortOnError(_, _, _, _, _, _, _, _)
MonitorLoop_AbortOnError(acc, ids, unreadable, sig_rt, sig_sr, ctl, wok, rok) ==
    IF ids = {} THEN acc
    ELSE LET id == CHOOSE i \in ids : \A j \in ids : i <= j
         IN  IF id \in unreadable /\ _get_test_config(acc.w, id) # None
             THEN acc
             ELSE MonitorLoop_AbortOnError(
                      MonitorOne(acc, id, unreadable, sig_rt, sig_sr,
                                 ctl, wok, rok),
                      ids \ {id}, unreadable, sig_rt, sig_sr, ctl, wok, rok)

\* The loop over the keys, here in the order of the ids.
RECURSIVE MonitorLoop(_, _, _, _, _, _, _, _)
MonitorLoop(acc, ids, unreadable, sig_rt, sig_sr, ctl, wok, rok) ==
    IF ids = {} THEN acc
    ELSE LET id == CHOOSE i \in ids : \A j \in ids : i <= j
         IN  MonitorLoop(
                 MonitorOne(acc, id, unreadable, sig_rt, sig_sr, ctl, wok, rok),
                 ids \ {id}, unreadable, sig_rt, sig_sr, ctl, wok, rok)

monitor_ab_tests(unreadable, sig_rt, sig_sr, ctl, wok, rok) ==
    \E o \in {MonitorLoop([w |-> World, summary |-> EmptySummary], Ids,
                          unreadable, sig_rt, sig_sr, ctl, wok, rok)} :
    /\ Commit(o.w)
    /\ ret' = Result("monitor", 0, o.summary, ctl, None)
    /\ UNCHANGED <<clock, ncreates, inflight>>

(* -------------------------------- time -------------------------------- *)
Tick(horizon) ==
    /\ clock < horizon
    /\ clock' = clock + 1
    /\ UNCHANGED <<store, expiry, routes, reports, nreports, preds, ncreates,
                   halted, inflight, ret>>

(* ---------------------------- specification --------------------------- *)
Init ==
    /\ clock = 0
    /\ store = [i \in Ids |-> None]
    /\ expiry = [i \in Ids |-> 0]
    /\ routes = [i \in Ids |-> None]
    /\ reports = [i \in Ids |-> None]
    /\ nreports = [i \in Ids |-> 0]
    /\ preds = {}
    /\ halted = {}
    /\ inflight = None
    /\ ncreates = 0
    /\ ret = [op |-> "init", id |-> 0, res |-> FALSE, ctl |-> "none",
              pre |-> "absent"]

\* Outcomes of a traffic-controller call and of a store write.
Ctl == {"ok", "fail"}
\* The inputs of a call that cannot matter are fixed: a store write is only
\* attempted after the controller succeeded.
Relevant(ctl, wok, rok) == ctl = "fail" => (wok /\ rok)

Next ==
    \/ Tick(MaxClock)
    \/ \E a \in Params :
          /\ ncreates < MaxCreates
          /\ NowSec \in Ids
          /\ create_ab_test(a.p, a.dur, a.ms)
    \/ \E id \in Ids, ctl \in Ctl, wok \in BOOLEAN :
          Relevant(ctl, wok, TRUE) /\ start_ab_test(id, ctl, wok)
    \/ \E id \in Ids, reason \in Reasons, ctl \in Ctl,
          wok \in BOOLEAN, rok \in BOOLEAN :
          Relevant(ctl, wok, rok) /\ stop_ab_test(id, reason, ctl, wok, rok)
    \/ \E id \in Ids, u \in Draws : route_request(id, u)
    \/ \E id \in Ids : get_test_report(id)
    \/ \E id \in Ids, wok \in BOOLEAN :
          analyze_ab_test(id, FALSE, FALSE, wok)
    \/ \E ctl \in Ctl, wok \in BOOLEAN, rok \in BOOLEAN :
          monitor_ab_tests({}, FALSE, FALSE, ctl, wok, rok)

Spec == Init /\ [][Next]_vars

\* Two calls of create_ab_test, with a healthy store and controller.
NextCreate ==
    \/ Tick(MaxClock)
    \/ \E a \in Params :
          /\ ncreates < MaxCreates + 1
          /\ NowSec \in Ids
          /\ create_ab_test(a.p, a.dur, a.ms)
    \/ \E id \in Ids : start_ab_test(id, "ok", TRUE)
    \/ \E id \in Ids : stop_ab_test(id, "Manual stop", "ok", TRUE, TRUE)
    \/ \E id \in Ids, u \in Draws : route_request(id, u)

SpecCreate == Init /\ [][NextCreate]_vars

\* Calls running concurrently with an analyze_ab_test call that is between
\* its read and its write of the record, with a healthy store and controller.
ValidParams == {a \in Params : a.p <= One /\ a.dur > 0 /\ a.ms >= 1}

NextConc ==
    \/ Tick(MaxClock)
    \/ \E a \in ValidParams :
          /\ ncreates < MaxCreates
          /\ NowSec \in Ids
          /\ create_ab_test(a.p, a.dur, a.ms)
    \/ \E id \in Ids : start_ab_test(id, "ok", TRUE)
    \/ \E id \in Ids : stop_ab_test(id, "Manual stop", "ok", TRUE, TRUE)
    \/ \E id \in Ids, u \in Draws : route_request(id, u)
    \/ \E id \in Ids : AnalyzeRead(id)
    \/ AnalyzeWrite(FALSE, FALSE, TRUE)
    \/ \E id \in Ids, model \in Models :
          /\ Cardinality(preds) < MaxRecords
          /\ record_prediction(id, model, 100, TRUE, 0, TRUE)
    \/ monitor_ab_tests({}, FALSE, FALSE, "ok", TRUE, TRUE)

SpecConc == Init /\ [][NextConc]_vars

\* Routing under every split from 0 to 1, with a healthy store and controller.
RouteParams ==
    { [p |-> 0,   dur |-> 1, ms |-> 1],
      [p |-> 500, dur |-> 1, ms |-> 1],
      [p |-> One, dur |-> 1, ms |-> 1] }

NextRoute ==
    \/ Tick(MaxClock)
    \/ \E a \in RouteParams :
          /\ ncreates < MaxCreates
          /\ NowSec \in Ids
          /\ create_ab_test(a.p, a.dur, a.ms)
    \/ \E id \in Ids : start_ab_test(id, "ok", TRUE)
    \/ \E id \in Ids : stop_ab_test(id, "Manual stop", "ok", TRUE, TRUE)
    \/ \E id \in Ids, u \in Draws : route_request(id, u)

SpecRoute == Init /\ [][NextRoute]_vars

\* Recording predictions for any test id at any millisecond, with the store
\* up or down, around the life cycle of one test.
ResponseTimes == {100, 151}

NextRecord ==
    \/ Tick(MaxClock)
    \/ /\ ncreates < MaxCreates
       /\ NowSec \in Ids
       /\ create_ab_test(500, 1, 1)
    \/ \E id \in Ids : start_ab_test(id, "ok", TRUE)
    \/ \E id \in Ids : stop_ab_test(id, "Manual stop", "ok", TRUE, TRUE)
    \/ \E id \in Ids, model \in Models, rt \in ResponseTimes,
          m \in 0 .. (MsPerSec - 1), wok \in BOOLEAN :
          /\ Cardinality(preds) <= MaxRecords
          /\ record_prediction(id, model, rt, TRUE, m, wok)

SpecRecord == Init /\ [][NextRecord]_vars

\* One test with the prediction records made while it is RUNNING, analysed
\* on request, with a healthy store and controller.
NextAnalyze ==
    \/ Tick(MaxClock)
    \/ /\ ncreates < MaxCreates
       /\ NowSec \in Ids
       /\ create_ab_test(500, 1, 1)
    \/ \E id \in Ids : start_ab_test(id, "ok", TRUE)
    \/ \E id \in Ids, model \in Models, rt \in ResponseTimes, ok \in BOOLEAN :
          /\ StatusOf(store[id]) = "RUNNING"
          /\ Cardinality(preds) <= MaxRecords
          /\ record_prediction(id, model, rt, ok, 0, TRUE)
    \/ \E id \in Ids, sig_rt \in BOOLEAN, sig_sr \in BOOLEAN :
          analyze_ab_test(id, sig_rt, sig_sr, TRUE)

SpecAnalyze == Init /\ [][NextAnalyze]_vars

\* One test with the prediction records made while it is RUNNING, watched
\* by the monitor, with a healthy store and controller; the clock runs past
\* the end time.
NextMonitor ==
    \/ Tick(MaxClock + 1)
    \/ /\ ncreates < MaxCreates
       /\ NowSec \in Ids
       /\ create_ab_test(500, 1, 1)
    \/ \E id \in Ids : start_ab_test(id, "ok", TRUE)
    \/ \E id \in Ids, model \in Models, rt \in ResponseTimes, ok \in BOOLEAN :
          /\ StatusOf(store[id]) = "RUNNING"
          /\ Cardinality(preds) <= MaxRecords
          /\ record_prediction(id, model, rt, ok, 0, TRUE)
    \/ monitor_ab_tests({}, FALSE, FALSE, "ok", TRUE, TRUE)

SpecMonitor == Init /\ [][NextMonitor]_vars

\* Two tests watched by the monitor, which finds any of the records
\* unreadable and the traffic controller up or down.
NextTick ==
    \/ Tick(MaxClock + 1)
    \/ /\ ncreates < MaxCreates + 1
       /\ NowSec \in Ids
       /\ create_ab_test(500, 1, 1)
    \/ \E id \in Ids : start_ab_test(id, "ok", TRUE)
    \/ \E id \in Ids, model \in Models :
          /\ StatusOf(store[id]) = "RUNNING"
          /\ Cardinality(preds) <= MaxRecords
          /\ record_prediction(id, model, 100, TRUE, 0, TRUE)
    \/ \E unreadable \in SUBSET Ids, ctl \in Ctl :
          monitor_ab_tests(unreadable, FALSE, FALSE, ctl, TRUE, TRUE)

SpecTick == Init /\ [][NextTick]_vars

\* Starting and stopping tests whose splits are not whole percents, with
\* the traffic controller up or down.
DeployParams ==
    { [p |-> 6,   dur |-> 1, ms |-> 1],
      [p |-> 500, dur |-> 1, ms |-> 1],
      [p |-> 996, dur |-> 1, ms |-> 1] }

NextDeploy ==
    \/ Tick(MaxClock)
    \/ \E a \in DeployParams :
          /\ ncreates < MaxCreates
          /\ NowSec \in Ids
          /\ create_ab_test(a.p, a.dur, a.ms)
    \/ \E id \in Ids, ctl \in Ctl : start_ab_test(id, ctl, TRUE)
    \/ \E id \in Ids, reason \in Reasons, ctl \in Ctl :
          stop_ab_test(id, reason, ctl, TRUE, TRUE)

SpecDeploy == Init /\ [][NextDeploy]_vars

\* One test, started once, with route_request, record_prediction and the
\* two steps of analyze_ab_test called for it while it is RUNNING, beside the
\* monitor; the store and the traffic controller are healthy.  The monitor is scheduled again and
\* again and the clock runs past every end time.
NextLive ==
    \/ Tick(MaxClock + 2)
    \/ \E a \in ValidParams :
          /\ ncreates < MaxCreates
          /\ NowSec \in Ids
          /\ create_ab_test(a.p, a.dur, a.ms)
    \/ \E id \in Ids :
          /\ StatusOf(store[id]) = "CREATED"
          /\ start_ab_test(id, "ok", TRUE)
    \/ \E id \in Ids :
          /\ StatusOf(store[id]) = "RUNNING"
          /\ route_request(id, 0)
    \/ \E id \in Ids :
          /\ StatusOf(store[id]) = "RUNNING"
          /\ AnalyzeRead(id)
    \/ AnalyzeWrite(FALSE, FALSE, TRUE)
    \/ \E id \in Ids :
          /\ StatusOf(store[id]) = "RUNNING"
          /\ Cardinality(preds) < MaxRecords
          /\ record_prediction(id, "candidate", 100, TRUE, 0, TRUE)
    \/ monitor_ab_tests({}, FALSE, FALSE, "ok", TRUE, TRUE)

SpecLive ==
    /\ Init
    /\ [][NextLive]_vars
    /\ WF_vars(Tick(MaxClock + 2))
    /\ WF_vars(monitor_ab_tests({}, FALSE, FALSE, "ok", TRUE, TRUE))

(* ------------------------------ claims -------------------------------- *)
\* C1: every experiment record in the store has 0 <= p <= 1, minSamples >= 1
\* and endTime > startTime, because create_ab_test rejects invalid
\* parameters without writing a record.
C1_StoredRecordsValid ==
    \A id \in Ids :
        store[id] # None =>
            /\ 0 <= store[id].traffic_split
            /\ store[id].traffic_split <= One
            /\ store[id].min_samples >= 1
            /\ store[id].end_time > store[id].start_time

\* C2: every successful create_ab_test returns an id that no earlier call
\* returned, so it finds no record under its key and overwrites none.
C2_FreshIds ==
    ret.op = "create" => ret.pre = "absent"

\* C3: the stored status of a test only moves forward along
\* CREATED -> RUNNING -> STOPPED/ERROR.
StatusRank(st) ==
    CASE st = "absent"  -> 0
      [] st = "CREATED" -> 1
      [] st = "RUNNING" -> 2
      [] OTHER          -> 3

C3_StatusForwardOnly ==
    [][ \A id \in Ids :
          StatusRank(StatusOf(store'[id])) >= StatusRank(StatusOf(store[id]))
      ]_vars

\* C4: start_ab_test on a test whose status is RUNNING or STOPPED fails,
\* installs no route and leaves the stored record unchanged.
C4_StartRequiresCreated ==
    [][ \A id \in Ids, ctl \in Ctl, wok \in BOOLEAN :
          ( /\ StatusOf(store[id]) \in {"RUNNING", "STOPPED"}
            /\ start_ab_test(id, ctl, wok) )
          => /\ ret'.res = FALSE
             /\ UNCHANGED <<store, routes>> ]_vars

\* C5: only a RUNNING test is moved to STOPPED; in particular stop_ab_test
\* on a CREATED test does not set its status to STOPPED.
C5_StopRequiresRunning ==
    [][ \A id \in Ids :
          ( /\ StatusOf(store'[id]) = "STOPPED"
            /\ StatusOf(store[id]) # "STOPPED" )
          => StatusOf(store[id]) = "RUNNING" ]_vars

\* C6: stop_ab_test on a STOPPED test changes neither the stored stop time
\* nor the stored stop reason and does not write the report again.
C6_StopIdempotent ==
    [][ \A id \in Ids, reason \in Reasons, ctl \in Ctl,
           wok \in BOOLEAN, rok \in BOOLEAN :
          ( /\ StatusOf(store[id]) = "STOPPED"
            /\ stop_ab_test(id, reason, ctl, wok, rok) )
          => /\ store'[id].stop_time = store[id].stop_time
             /\ store'[id].stop_reason = store[id].stop_reason
             /\ nreports'[id] = nreports[id] ]_vars

\* C7: when the traffic controller call fails, start_ab_test and
\* stop_ab_test return False and leave every stored record as it was (a
\* CREATED test stays CREATED, a RUNNING test stays RUNNING).
C7_ControllerFailureKeepsStatus ==
    [][ /\ ( /\ ret'.op = "start"
             /\ ret'.ctl = "fail"
             /\ start_ab_test(ret'.id, "fail", TRUE) )
           => (ret'.res = FALSE /\ store' = store)
        /\ ( /\ ret'.op = "stop"
             /\ ret'.ctl = "fail"
             /\ \E reason \in Reasons :
                   stop_ab_test(ret'.id, reason, "fail", TRUE, TRUE) )
           => (ret'.res = FALSE /\ store' = store) ]_vars

\* A stop_ab_test call on a RUNNING test whose baseline restore failed.
C7_Witness ==
    /\ ret.op = "stop"
    /\ ret.ctl = "fail"
    /\ ret.pre = "RUNNING"
    /\ ret.res = FALSE
    /\ StatusOf(store[ret.id]) = "RUNNING"

\* C8: a report is stored for every test whose status is STOPPED, and
\* get_test_report returns it, whether or not the test was ever analyzed.
C8_ReportAfterStop ==
    /\ \A id \in Ids : StatusOf(store[id]) = "STOPPED" => reports[id] # None
    /\ (ret.op = "report" /\ ret.pre = "STOPPED") => ret.res # None

\* C9: route_request returns the baseline model id, without raising, when
\* the test does not exist or its status is not RUNNING.
C9_RouteFailsOpen ==
    (ret.op = "route" /\ ret.pre # "RUNNING") => ret.res = "baseline"

\* C10: once a stop_ab_test call on a test has returned True (and the test
\* was not started again), every route_request on it returns the baseline
\* model id, whatever analyze_ab_test, record_prediction and
\* monitor_ab_tests calls run concurrently.
C10_StopEffectiveForRouting ==
    (ret.op = "route" /\ ret.id \in halted) => ret.res = "baseline"

\* C11: on a RUNNING test with split p, route_request returns the candidate
\* model id exactly when its draw u satisfies u < p and the baseline model
\* id otherwise; so p = 0 always gives baseline and p = 1 always candidate.
C11_RouteBySplit ==
    [][ \A u \in Draws :
          ( /\ ret'.op = "route"
            /\ StatusOf(store[ret'.id]) = "RUNNING"
            /\ route_request(ret'.id, u) )
          => LET cfg == store[ret'.id] IN
             /\ ret'.res = IF u < cfg.traffic_split
                           THEN cfg.candidate_model
                           ELSE cfg.baseline_model
             /\ ret'.res \in {cfg.baseline_model, cfg.candidate_model}
             /\ cfg.traffic_split = 0 => ret'.res = cfg.baseline_model
             /\ cfg.traffic_split = One => ret'.res = cfg.candidate_model
      ]_vars

\* A draw equal to the split of a RUNNING test went to the baseline model.
C11_Witness ==
    /\ ret.op = "route"
    /\ ret.pre = "RUNNING"
    /\ store[ret.id] # None
    /\ store[ret.id].traffic_split = 500
    /\ ret.res = "baseline"

\* C12: record_prediction stores its record whatever the state of the test
\* (absent, CREATED, RUNNING, STOPPED) and leaves the test records, the
\* routes and the reports as they were.
C12_RecordDecoupled ==
    [][ \A model \in Models, rt \in ResponseTimes, m \in 0 .. (MsPerSec - 1) :
          ( /\ ret'.op = "record"
            /\ ret'.res = "None"
            /\ record_prediction(ret'.id, model, rt, TRUE, m, TRUE) )
          => /\ [ test_id |-> ret'.id, model_id |-> model,
                  ms |-> clock * MsPerSec + m,
                  response_time |-> rt, success |-> TRUE ] \in preds'
             /\ ret'.pre \in {"absent", "CREATED", "RUNNING", "STOPPED"}
             /\ UNCHANGED <<store, expiry, routes, reports, nreports>>
      ]_vars

\* A record was stored for a test id that has no test record.
C12_Witness ==
    /\ ret.op = "record"
    /\ ret.res = "None"
    /\ ret.pre = "absent"
    /\ \E r \in preds : r.test_id = ret.id

\* C13: every record_prediction call writes under a key of its own, so no
\* stored record is replaced by a later call.
C13_NoRecordOverwritten ==
    [][ ret'.op = "record" => preds \subseteq preds' ]_vars

\* C14: record_prediction returns normally also when the store write fails.
C14_RecordFailsOpen ==
    ret.op = "record" => ret.res = "None"

\* C15: when either arm has fewer than min_samples records, the analysis
\* holds no statistical tests and exactly one recommendation; statistical
\* tests appear only when both arms have at least min_samples records.
C15_MinSamplesGate ==
    [][ \A sig_rt \in BOOLEAN, sig_sr \in BOOLEAN :
          ( /\ ret'.op = "analyze"
            /\ store[ret'.id] # None
            /\ analyze_ab_test(ret'.id, sig_rt, sig_sr, TRUE) )
          => LET cfg == store[ret'.id]
                 nb == Cardinality({r \in preds : /\ r.test_id = ret'.id
                                                  /\ r.model_id = "baseline"})
                 nc == Cardinality({r \in preds : /\ r.test_id = ret'.id
                                                  /\ r.model_id = "candidate"})
                 hasTests == /\ ret'.res # ErrorResult
                             /\ ret'.res.tests # None
             IN  /\ (nb < cfg.min_samples \/ nc < cfg.min_samples)
                    => /\ ret'.res # ErrorResult
                       /\ ret'.res.tests = None
                       /\ Len(ret'.res.recommendations) = 1
                 /\ hasTests
                    => (nb >= cfg.min_samples /\ nc >= cfg.min_samples)
      ]_vars

\* An analysis of a test one of whose arms has records and the other none.
C15_Witness ==
    /\ ret.op = "analyze"
    /\ ret.pre # "absent"
    /\ ret.res # ErrorResult
    /\ ret.res.baseline_stats # None
    /\ ret.res.candidate_stats = None
    /\ ret.res.tests = None
    /\ ret.res.recommendations = <<"insufficient">>

\* C16: analyze_ab_test and get_test_report on an id without a test record
\* return the empty result and None, and write nothing.
C16_UnknownIdReadsEmpty ==
    [][ /\ ( /\ ret'.op = "analyze"
             /\ store[ret'.id] = None
             /\ \E wok \in BOOLEAN :
                    analyze_ab_test(ret'.id, FALSE, FALSE, wok) )
           => /\ ret'.res = EmptyResult
              /\ UNCHANGED <<store, expiry, routes, reports, nreports, preds>>
        /\ ( /\ ret'.op = "report"
             /\ store[ret'.id] = None
             /\ get_test_report(ret'.id) )
           => /\ ret'.res = None
              /\ UNCHANGED <<store, expiry, routes, reports, nreports, preds>>
      ]_vars

\* An analysis of an id without a test record, while another test exists.
C16_Witness ==
    /\ ret.op = "analyze"
    /\ ret.pre = "absent"
    /\ ret.res = EmptyResult
    /\ \E id \in Ids : store[id] # None

\* x is an entry of the list seq
Listed(seq, x) == \E i \in 1 .. Len(seq) : seq[i] = x

\* The records of one arm of a test.
ArmRecords(id, model) ==
    {r \in preds : r.test_id = id /\ r.model_id = model}

\* C17: a monitor tick with a healthy store and controller stops a RUNNING
\* test whose end time is earlier than now with the reason 'duration
\* exceeded', lists the stop among the actions taken, and neither analyses the
\* test nor evaluates its rollback in that tick.
C17_DurationExceededStops ==
    [][ ( /\ ret'.op = "monitor"
          /\ monitor_ab_tests({}, FALSE, FALSE, "ok", TRUE, TRUE) )
        => \A id \in Ids :
             (StatusOf(store[id]) = "RUNNING" /\ clock > store[id].end_time)
             => /\ store'[id].status = "STOPPED"
                /\ store'[id].stop_reason = DurationExceeded
                /\ Listed(ret'.res.actions_taken, <<"stopped", id>>)
                /\ ~Listed(ret'.res.actions_taken, <<"rolled_back", id>>)
                /\ ~Listed(ret'.res.alerts, <<"CRITICAL", id>>)
                /\ ~Listed(ret'.res.active_tests, id)
                /\ store'[id].last_analysis = store[id].last_analysis
      ]_vars

\* A tick stopped a test that had records and had run past its end time.
C17_Witness ==
    /\ ret.op = "monitor"
    /\ \E id \in Ids :
         /\ Listed(ret.res.actions_taken, <<"stopped", id>>)
         /\ StatusOf(store[id]) = "STOPPED"
         /\ store[id].stop_reason = DurationExceeded
         /\ clock > store[id].end_time
         /\ ArmRecords(id, "candidate") # {}

\* C18: a monitor tick leaves a RUNNING test within its duration RUNNING,
\* with no action and no alert, when either arm has fewer than min_samples
\* records, whatever the error rates and response times.
C18_NoRollbackOnInsufficientData ==
    [][ ( /\ ret'.op = "monitor"
          /\ monitor_ab_tests({}, FALSE, FALSE, "ok", TRUE, TRUE) )
        => \A id \in Ids :
             ( /\ StatusOf(store[id]) = "RUNNING"
               /\ clock <= store[id].end_time
               /\ \/ Cardinality(ArmRecords(id, "baseline"))
                       < store[id].min_samples
                  \/ Cardinality(ArmRecords(id, "candidate"))
                       < store[id].min_samples )
             => /\ store'[id].status = "RUNNING"
                /\ ~Listed(ret'.res.actions_taken, <<"stopped", id>>)
                /\ ~Listed(ret'.res.actions_taken, <<"rolled_back", id>>)
                /\ ~Listed(ret'.res.alerts, <<"CRITICAL", id>>)
      ]_vars

\* candidate error rate > 2 x baseline error rate, or candidate mean
\* response time > 1.5 x baseline mean response time, on non-empty arms
Degraded(b, c) ==
    LET nb == Cardinality(b)
        nc == Cardinality(c)
    IN  \/ (nc - Successes(c)) * nb > 2 * (nb - Successes(b)) * nc
        \/ 2 * SumRt(c) * nb > 3 * SumRt(b) * nc

\* C19: a monitor tick stops a RUNNING test within its duration whose arms
\* both have min_samples records, with the automatic-rollback reason and a
\* critical alert, exactly when the candidate's error rate exceeds twice the
\* baseline's or its mean response time exceeds 1.5 times the baseline's;
\* otherwise the test stays RUNNING and is listed among the active tests.
C19_RollbackIffDegraded ==
    [][ ( /\ ret'.op = "monitor"
          /\ monitor_ab_tests({}, FALSE, FALSE, "ok", TRUE, TRUE) )
        => \A id \in Ids :
             LET b == ArmRecords(id, "baseline")
                 c == ArmRecords(id, "candidate")
             IN
             ( /\ StatusOf(store[id]) = "RUNNING"
               /\ clock <= store[id].end_time
               /\ Cardinality(b) >= store[id].min_samples
               /\ Cardinality(c) >= store[id].min_samples )
             => IF Degraded(b, c)
                THEN /\ store'[id].status = "STOPPED"
                     /\ store'[id].stop_reason = AutomaticRollback
                     /\ Listed(ret'.res.alerts, <<"CRITICAL", id>>)
                ELSE /\ store'[id].status = "RUNNING"
                     /\ Listed(ret'.res.active_tests, id)
                     /\ ~Listed(ret'.res.alerts, <<"CRITICAL", id>>)
      ]_vars

\* C20: a monitor tick in which reading one test's record raises, or an
\* analysis or a stop fails, still evaluates every other RUNNING test (it is
\* listed as active, stopped or rolled back) and returns its summary; the
\* record that could not be read is left as it was.
C20_TickSurvivesFailures ==
    [][ \A unreadable \in SUBSET Ids, ctl \in Ctl :
          ( /\ ret'.op = "monitor"
            /\ ret'.ctl = ctl
            /\ monitor_ab_tests(unreadable, FALSE, FALSE, ctl, TRUE, TRUE) )
          => /\ \A id \in Ids \ unreadable :
                  StatusOf(store[id]) = "RUNNING"
                  => \/ Listed(ret'.res.active_tests, id)
                     \/ Listed(ret'.res.actions_taken, <<"stopped", id>>)
                     \/ Listed(ret'.res.actions_taken, <<"rolled_back", id>>)
             /\ \A id \in unreadable : store'[id] = store[id]
      ]_vars

\* Test 1 was analysed by a tick at the present time although test 0, RUNNING
\* since before and within its duration, was passed over in every tick.
C20_Witness ==
    /\ ret.op = "monitor"
    /\ StatusOf(store[0]) = "RUNNING"
    /\ store[0].actual_start_time < clock
    /\ clock <= store[0].end_time
    /\ store[0].last_analysis = None
    /\ ArmRecords(0, "baseline") = {}
    /\ ArmRecords(0, "candidate") = {}
    /\ StatusOf(store[1]) = "RUNNING"
    /\ store[1].last_analysis # None
    /\ store[1].last_analysis.analysis_time = clock
    /\ Listed(ret.res.active_tests, 1)

\* C21: whenever the evaluation of a test fails during a monitor tick, the
\* alerts of the summary returned by that tick hold an entry about that test.
C21_TickErrorsAlerted ==
    [][ \A unreadable \in SUBSET Ids, ctl \in Ctl :
          ( /\ ret'.op = "monitor"
            /\ ret'.ctl = ctl
            /\ monitor_ab_tests(unreadable, FALSE, FALSE, ctl, TRUE, TRUE) )
          => \A id \in unreadable :
               store[id] # None
               => \E i \in 1 .. Len(ret'.res.alerts) :
                      ret'.res.alerts[i][2] = id
      ]_vars

\* C22: a stored report is kept under its test's id and holds the test's
\* summary, its last analysis, the time it was generated and the stop reason
\* given to stop_ab_test.
C22_ReportContents ==
    \A id \in Ids :
        reports[id] # None
        => /\ reports[id].test_id = id
           /\ reports[id].results # None
           /\ "generated_at" \in DOMAIN reports[id]
           /\ "stop_reason" \in DOMAIN reports[id]

\* The three overall recommendations.
Overall == {"deploy", "no_difference", "mixed"}

\* C23: an analysis that ran the statistical tests ends its recommendations
\* with exactly one overall recommendation: deploy exactly when both tests
\* are significant with the candidate better (lower mean response time,
\* higher success rate), no difference exactly when neither test is
\* significant, and mixed results in every other case.
C23_RecommendationTable ==
    [][ \A sig_rt \in BOOLEAN, sig_sr \in BOOLEAN :
          ( /\ ret'.op = "analyze"
            /\ store[ret'.id] # None
            /\ analyze_ab_test(ret'.id, sig_rt, sig_sr, TRUE)
            /\ ret'.res # ErrorResult
            /\ ret'.res.tests # None )
          => LET b == ArmRecords(ret'.id, "baseline")
                 c == ArmRecords(ret'.id, "candidate")
                 recs == ret'.res.recommendations
                 last == recs[Len(recs)]
                 rt_better == /\ sig_rt
                              /\ SumRt(c) * Cardinality(b)
                                   < SumRt(b) * Cardinality(c)
                 sr_better == /\ sig_sr
                              /\ Successes(c) * Cardinality(b)
                                   > Successes(b) * Cardinality(c)
             IN  /\ Cardinality({i \in 1 .. Len(recs) : recs[i] \in Overall}) = 1
                 /\ last = IF rt_better /\ sr_better THEN "deploy"
                           ELSE IF ~sig_rt /\ ~sig_sr THEN "no_difference"
                           ELSE "mixed"
      ]_vars

\* An analysis found one test significant with the candidate better and the
\* other not significant, and recommended a review.
C23_Witness ==
    /\ ret.op = "analyze"
    /\ ret.pre # "absent"
    /\ ret.res # ErrorResult
    /\ ret.res.tests # None
    /\ ret.res.tests.response_time.significant
    /\ ret.res.tests.response_time.candidate_mean_lt
    /\ ~ret.res.tests.success_rate.significant
    /\ ret.res.recommendations = <<"rt_better", "mixed">>

\* C24: the time-to-live set on a stored test record is always its
\* duration plus 24 hours, after create_ab_test and after every later write.
C24_RecordTtl ==
    \A id \in Ids :
        store[id] # None
        => expiry[id] = store[id].duration_hours + KeepHours

\* round(x) for x = n / d with d > 0: the nearest integer, the even one of
\* the two when x lies halfway.
Round(n, d) ==
    LET q == n \div d
        r == n % d
    IN  IF 2 * r > d THEN q + 1
        ELSE IF 2 * r < d THEN q
        ELSE IF q % 2 = 0 THEN q ELSE q + 1

\* C25: the route installed by start_ab_test has the baseline weight
\* round((1 - traffic_split) * 100) and the candidate weight
\* round(traffic_split * 100), and both weights are integers from 0 to 100.
C25_WeightsRounded ==
    \A id \in Ids :
        (routes[id] # None /\ store[id] # None)
        => /\ routes[id].baseline
                = Round((One - store[id].traffic_split) * 100, One)
           /\ routes[id].candidate = Round(store[id].traffic_split * 100, One)
           /\ routes[id].baseline \in 0 .. 100
           /\ routes[id].candidate \in 0 .. 100

\* C26: when the write of the report fails during stop_ab_test, the stop is
\* not undone: the stored record has status STOPPED with the stop time and
\* the reason of the call.
C26_ReportWriteBestEffort ==
    [][ \A reason \in Reasons :
          ( /\ ret'.op = "stop"
            /\ ret'.ctl = "ok"
            /\ store[ret'.id] # None
            /\ store[ret'.id].last_analysis # None
            /\ stop_ab_test(ret'.id, reason, "ok", TRUE, FALSE) )
          => /\ store'[ret'.id].status = "STOPPED"
             /\ store'[ret'.id].stop_time = clock
             /\ store'[ret'.id].stop_reason = reason
      ]_vars

\* A stop of a RUNNING test failed on its report write and left the record
\* STOPPED without a report.
C26_Witness ==
    /\ ret.op = "stop"
    /\ ret.ctl = "ok"
    /\ ret.res = FALSE
    /\ ret.pre = "RUNNING"
    /\ StatusOf(store[ret.id]) = "STOPPED"
    /\ store[ret.id].last_analysis # None
    /\ reports[ret.id] = None

\* C27: start_ab_test returns True only if the stored status is RUNNING when
\* it returns, and stop_ab_test returns True exactly if the stored status is
\* STOPPED when it returns.
C27_ReturnAgreesWithStore ==
    /\ (ret.op = "start" /\ ret.res = TRUE)
       => StatusOf(store[ret.id]) = "RUNNING"
    /\ ret.op = "stop"
       => (ret.res = TRUE <=> StatusOf(store[ret.id]) = "STOPPED")

\* C28: between operations a weighted route is installed for a test exactly
\* if its stored status is RUNNING.
C28_RouteIffRunning ==
    \A id \in Ids :
        routes[id] # None <=> StatusOf(store[id]) = "RUNNING"

\* C29: every test that the summary of a monitor tick lists as stopped or
\* rolled back, or names in a rollback alert, has the stored status STOPPED
\* when the tick returns.
C29_SummaryTruthful ==
    ret.op = "monitor"
    => \A id \in Ids :
         ( \/ Listed(ret.res.actions_taken, <<"stopped", id>>)
           \/ Listed(ret.res.actions_taken, <<"rolled_back", id>>)
           \/ Listed(ret.res.alerts, <<"CRITICAL", id>>) )
         => StatusOf(store[id]) = "STOPPED"

\* C30: with the monitor running again and again, the clock passing the end
\* time and the store and the traffic controller healthy, every RUNNING
\* test is eventually STOPPED and stays STOPPED, whatever route_request,
\* record_prediction and analyze_ab_test calls run beside the monitor.
C30_StartedTestsEnd ==
    \A id \in Ids :
        [](StatusOf(store[id]) = "RUNNING"
           => <>[](StatusOf(store[id]) = "STOPPED"))

====
